---- MODULE Spec2Model ----
(***************************************************************************)
(* Model of the element detector of diagram-genie (src/unnamed/part_003):  *)
(* getTraversalOrder and getElementContext over a snapshot of the canvas   *)
(* elements, getElementDetails and the two prompt builders.                *)
(* Further down: the chat panel (src/unnamed/part_001) and the two         *)
(* diagram handlers (src/supabase/functions/generate-diagram/index.ts,     *)
(* src/unnamed/part_005).                                                  *)
(*                                                                         *)
(* JavaScript values are represented as follows.                           *)
(*   - a string is the sequence of its characters (<<"1","0">> is "10");   *)
(*   - undefined and null, where they can meet a string, are the two       *)
(*     one-entry sequences JsUndefined and JsNullVal, which no string is;  *)
(*   - an object is a record whose DOMAIN holds the fields it has;         *)
(*   - a null array entry is the record JsNull;                            *)
(*   - an array is the record [items |-> <<...>>], an absent one JsNull.   *)
(***************************************************************************)
EXTENDS Integers, Sequences, FiniteSets, TLC

VARIABLES
    allElements,  \* the collection handed to both functions
    pc,           \* position of the running call
    nodes,        \* getTraversalOrder: the graph nodes (line 139)
    adj,          \* getTraversalOrder: id -> successors in insertion order
    indeg,        \* getTraversalOrder: id -> in-degree
    indegKeys,    \* getTraversalOrder: keys of indeg in insertion order
    queue,        \* getTraversalOrder: the Kahn queue
    order,        \* getTraversalOrder: the output under construction
    dequeued,     \* number of entries of order that the Kahn walk produced
    element,      \* getElementContext: the focal element of the last call
    neighbors,    \* getElementContext: the neighbors array (line 94)
    earlier,      \* the getElementContext calls that returned before the last one
    diagramTopic,     \* prompt builders: parameter diagramTopic
    promptNeighbors,  \* prompt builders: parameter neighbors
    result,       \* what the last call returned or threw
    messages,        \* ChatPanel: the transcript (useState, line 28)
    input,           \* ChatPanel: the text of the input field (line 35)
    isLoading,       \* ChatPanel: the pending flag (line 36)
    mode,            \* ChatPanel: the selected action mode (line 37)
    currentMermaid,  \* ChatPanel: the prop currentMermaid
    now,             \* the millisecond that Date.now() last returned
    calls,           \* ChatPanel: the handleSubmit calls waiting at an await
    submits,         \* ChatPanel: the number of submit events and what became of the last
    request,         \* handlers: the request being served
    serving,         \* handlers: the await the handler is at, the gateway's status
    response         \* handlers: the answer

travLocals == <<nodes, adj, indeg, indegKeys, queue, order, dequeued>>
ctxLocals == <<element, neighbors, earlier>>
promptLocals == <<diagramTopic, promptNeighbors>>
panelVars == <<messages, input, isLoading, mode, currentMermaid, now, calls, submits>>
handlerVars == <<request, serving, response>>
vars == <<allElements, pc, nodes, adj, indeg, indegKeys, queue, order, dequeued,
          element, neighbors, earlier, diagramTopic, promptNeighbors, result,
          messages, input, isLoading, mode, currentMermaid, now, calls, submits,
          request, serving, response>>

----------------------------------------------------------------------------
(* Bounds of the model *)

MaxNodes == 3   \* graph nodes in a traversal input
MaxConn == 2    \* connectors in a traversal input
MaxNear == 3    \* elements in a neighborhood input

----------------------------------------------------------------------------
(* JavaScript values *)

JsNull == [jsnull |-> TRUE]
JsUndefined == <<"(undefined)">>
JsNullVal == <<"(null)">>

S_arrow == <<"a","r","r","o","w">>
S_line == <<"l","i","n","e">>
S_rectangle == <<"r","e","c","t","a","n","g","l","e">>
S_undefined == <<"u","n","d","e","f","i","n","e","d">>
S_element == <<"e","l","e","m","e","n","t">>

Range(s) == { s[i] : i \in 1..Len(s) }

Returned(v) == [kind |-> "return", value |-> v]
Thrown(e) == [kind |-> "throw", value |-> e]

\* e.f, undefined when the object has no such field
Field(e, f) == IF f \in DOMAIN e THEN e[f] ELSE JsUndefined

\* v || 0 and v ?? 0 for a numeric field that is a number or missing
NumOr0(e, f) == IF f \in DOMAIN e THEN e[f] ELSE 0

\* truthiness of a string-or-missing value: undefined, null and "" are falsy
Truthy(v) == v # JsUndefined /\ v # JsNullVal /\ v # <<>>

\* the property key a value is converted to when it indexes an object
PropertyKey(v) == IF v = JsUndefined THEN S_undefined ELSE v

DigitVal(c) ==
    CASE c = "0" -> 0 [] c = "1" -> 1 [] c = "2" -> 2 [] c = "3" -> 3
      [] c = "4" -> 4 [] c = "5" -> 5 [] c = "6" -> 6 [] c = "7" -> 7
      [] c = "8" -> 8 [] c = "9" -> 9 [] OTHER -> -1

\* order of two canonical decimal strings by their numeric value: the shorter is
\* the smaller, equal lengths differ at their first different digit
CompareIndex(a, b) ==
    IF Len(a) # Len(b) THEN Len(a) - Len(b)
    ELSE IF a = b THEN 0
    ELSE LET i == CHOOSE i \in 1..Len(a) :
                      a[i] # b[i] /\ \A j \in 1..(i - 1) : a[j] = b[j]
         IN  DigitVal(a[i]) - DigitVal(b[i])

MaxArrayIndex == <<"4","2","9","4","9","6","7","2","9","4">>

\* a key that Object.keys lists as an integer index: canonical decimal, <= 2^32 - 2
IsArrayIndex(k) ==
    /\ Len(k) >= 1
    /\ \A i \in 1..Len(k) : DigitVal(k[i]) >= 0
    /\ (Len(k) > 1 => k[1] # "0")
    /\ CompareIndex(k, MaxArrayIndex) <= 0

----------------------------------------------------------------------------
(* Inputs: the element snapshots the model draws from *)

NodeIds == { <<"b">>, <<"a">>, <<"1","0">>, <<"2">> }
BoundIds == { <<"b">>, <<"1","0">>, <<"2">> }   \* the ids that connectors name
ConnId == <<"e","1">>

\* graph nodes without coordinates
PlainNodes == { [id |-> i, type |-> S_rectangle] : i \in NodeIds }

\* graph nodes with coordinates, and one object that has neither id nor type
PlacedNodes ==
    { [id |-> i, type |-> S_rectangle] @@ p :
        i \in BoundIds, p \in { [y |-> 1], [x |-> 1], [x |-> 0, y |-> 0] } }
    \cup { [x |-> 1] }

\* connectors whose two bindings resolve to graph-node ids
EdgeConnectors ==
    { [id |-> ConnId, type |-> S_arrow,
       startBinding |-> [elementId |-> s], endBinding |-> [elementId |-> t]] :
        s \in BoundIds, t \in BoundIds }
    \cup { [id |-> ConnId, type |-> S_line,
            startBinding |-> [elementId |-> <<"b">>, id |-> <<"1","0">>],
            endBinding |-> [elementId |-> <<>>, id |-> <<"2">>]] }

\* connectors without bindings, with one binding, with a binding outside the nodes
LooseConnectors ==
    { [id |-> ConnId, type |-> S_arrow],
      [id |-> ConnId, type |-> S_line, startBinding |-> [elementId |-> <<"b">>]],
      [id |-> ConnId, type |-> S_arrow,
       startBinding |-> [elementId |-> <<"b">>], endBinding |-> [elementId |-> ConnId]] }

SeqsUpTo(S, n) == UNION { [1..k -> S] : k \in 0..n }

DistinctIds(s) ==
    \A i, j \in 1..Len(s) : i # j => Field(s[i], "id") # Field(s[j], "id")

DistinctSeqs(S, n) == { s \in SeqsUpTo(S, n) : DistinctIds(s) }

RepeatingSeqs(S, n) == { s \in SeqsUpTo(S, n) : ~DistinctIds(s) }

InsertAt(s, i, e) == SubSeq(s, 1, i - 1) \o <<e>> \o SubSeq(s, i, Len(s))

Array(items) == [items |-> items]

\* graphs: plain nodes followed by edge connectors, or one connector of any kind
\* ahead of the nodes, or a loose connector between the nodes and an edge connector
EdgeInput(all) ==
    \E ns \in DistinctSeqs(PlainNodes, MaxNodes) :
        \/ \E cs \in SeqsUpTo(EdgeConnectors, MaxConn) : all = Array(ns \o cs)
        \/ \E c \in EdgeConnectors \cup LooseConnectors : all = Array(<<c>> \o ns)
        \/ \E l \in LooseConnectors, cs \in SeqsUpTo(EdgeConnectors, 1) :
              all = Array(ns \o <<l>> \o cs)

\* layouts: placed nodes, alone or around one connector that yields no edge
LayoutInput(all) ==
    \E ns \in DistinctSeqs(PlacedNodes, MaxNodes) :
        \/ all = Array(ns)
        \/ /\ ns # <<>>
           /\ \E l \in LooseConnectors :
                 all = Array(SubSeq(ns, 1, 1) \o <<l>> \o SubSeq(ns, 2, Len(ns)))

\* collections in which an id occurs twice
RepeatingInput(all) ==
    \E ns \in RepeatingSeqs({ n \in PlainNodes : n.id \in BoundIds }, MaxNodes)
                \cup RepeatingSeqs(PlacedNodes, 2) :
        \E cs \in SeqsUpTo(EdgeConnectors, 1) : all = Array(ns \o cs)

\* malformed collections: absent, or with a null entry somewhere
MalformedInput(all) ==
    \/ all = JsNull
    \/ \E ns \in SeqsUpTo(PlainNodes \cup { [id |-> ConnId, type |-> S_arrow] }, 2) :
          \E i \in 1..(Len(ns) + 1) : all = Array(InsertAt(ns, i, JsNull))

TraversalInput(all) ==
    \/ EdgeInput(all)
    \/ LayoutInput(all)
    \/ RepeatingInput(all)
    \/ MalformedInput(all)

----------------------------------------------------------------------------
(* Inputs of the neighborhood engine *)

NearIds == { <<"a">>, <<"b">>, <<"c">>, <<"d">> }

\* centers at 0, 399.5 and 400 on the x axis, and at (240, 320)
Placements ==
    { [type |-> S_rectangle],
      [type |-> S_rectangle, x |-> 399, y |-> 0, width |-> 1, height |-> 0],
      [type |-> S_rectangle, x |-> 400],
      [type |-> S_rectangle, x |-> 240, y |-> 320] }

NearElements == { [id |-> i] @@ p : i \in NearIds, p \in Placements }

FewNearElements == { e \in NearElements : e.id \in { <<"a">>, <<"b">> } }

\* elements at the origin that differ in their text
Labels == { <<" ">>, <<" ","S","t"," ">> }

LabelledElements ==
    { [id |-> i, type |-> S_rectangle, text |-> t] : i \in { <<"a">>, <<"b">> }, t \in Labels }
    \cup { [id |-> <<"b">>, name |-> <<"N">>], [id |-> <<"b">>, text |-> <<>>, name |-> <<>>] }

NearConnector ==
    [id |-> ConnId, type |-> S_arrow, x |-> 1,
     startBinding |-> [elementId |-> <<"a">>], endBinding |-> [elementId |-> <<"b">>]]

\* six labelled elements in a row, the later the nearer to the origin
CrowdIds == <<"a", "b", "c", "d", "e", "f">>
Crowd ==
    [i \in 1..Len(CrowdIds) |->
        [id |-> <<CrowdIds[i]>>, type |-> S_rectangle, text |-> <<CrowdIds[i]>>,
         x |-> 10 * (7 - i)]]

\* elements whose centers are 0, 0.5 and 1 away from the origin
RoundingElements ==
    { [id |-> i, type |-> S_rectangle] @@ p :
        i \in { <<"a">>, <<"b">>, <<"c">> }, p \in { [y |-> 0], [width |-> 1], [x |-> 1] } }

NearInput(all) ==
    \/ \E s \in DistinctSeqs(NearElements, MaxNear) : all = Array(s)
    \/ \E s \in RepeatingSeqs(FewNearElements, 2) : all = Array(s)
    \/ \E s \in DistinctSeqs(FewNearElements, 2) :
          \/ \E i \in 1..(Len(s) + 1) : all = Array(InsertAt(s, i, JsNull))
          \/ all = Array(Append(s, NearConnector))
    \/ \E s \in SeqsUpTo(LabelledElements, 2) : all = Array(s)
    \/ all = Array(Crowd)
    \/ \E s \in DistinctSeqs(RoundingElements, MaxNear) : all = Array(s)
    \/ all = JsNull

----------------------------------------------------------------------------
(* getTraversalOrder, lines 135-205 *)

\* line 136: !allElements || allElements.length === 0
NothingToTraverse(all) == IF all = JsNull THEN TRUE ELSE all.items = <<>>

IsConnector(e) == Field(e, "type") = S_arrow \/ Field(e, "type") = S_line

\* line 139: allElements.filter(e => e.type !== 'arrow' && e.type !== 'line');
\* reading .type of a null entry throws
FilterThrows(items) == \E i \in 1..Len(items) : items[i] = JsNull

GraphNodes(items) == SelectSeq(items, LAMBDA e : ~IsConnector(e))

\* line 140
NodeIdSet(ns) == { Field(ns[i], "id") : i \in 1..Len(ns) }

\* lines 144-147: one entry per node id; a repeated id keeps its first position
RECURSIVE KeysInOrder(_)
KeysInOrder(ns) ==
    IF ns = <<>> THEN <<>>
    ELSE LET rest == KeysInOrder(SubSeq(ns, 1, Len(ns) - 1))
             k == PropertyKey(Field(ns[Len(ns)], "id"))
         IN  IF k \in Range(rest) THEN rest ELSE Append(rest, k)

EmptyGraph(ns) ==
    [adj |-> [k \in Range(KeysInOrder(ns)) |-> <<>>],
     indeg |-> [k \in Range(KeysInOrder(ns)) |-> 0]]

\* the in-degree raised for every connector, the successor added once
AddEdgeCounting(g, a, b) ==
    [adj |-> [g.adj EXCEPT ![a] = IF b \in Range(@) THEN @ ELSE Append(@, b)],
     indeg |-> [g.indeg EXCEPT ![b] = @ + 1]]

\* lines 159-162 and 175-178: add a -> b unless adj[a] already has b
AddEdge(g, a, b) ==
    IF b \in Range(g.adj[a]) THEN g
    ELSE [adj |-> [g.adj EXCEPT ![a] = Append(@, b)],
          indeg |-> [g.indeg EXCEPT ![b] = @ + 1]]

\* the binding resolved through its elementId only
BindingElementId(el, which) ==
    IF which \notin DOMAIN el THEN JsNullVal
    ELSE IF Truthy(Field(el[which], "elementId")) THEN el[which].elementId
    ELSE JsNullVal

\* lines 155-156: el?.startBinding?.elementId || el?.startBinding?.id || null
BindingId(el, which) ==
    IF which \notin DOMAIN el THEN JsNullVal
    ELSE IF Truthy(Field(el[which], "elementId")) THEN el[which].elementId
    ELSE IF Truthy(Field(el[which], "id")) THEN el[which].id
    ELSE JsNullVal

\* lines 150-165
RECURSIVE BindingEdges(_, _, _)
BindingEdges(items, ids, g) ==
    IF items = <<>> THEN g
    ELSE LET el == Head(items)
             startId == BindingId(el, "startBinding")
             endId == BindingId(el, "endBinding")
         IN  IF el = JsNull \/ ~IsConnector(el) THEN BindingEdges(Tail(items), ids, g)
             ELSE IF Truthy(startId) /\ Truthy(endId) /\ startId \in ids /\ endId \in ids
                  THEN BindingEdges(Tail(items), ids, AddEdge(g, startId, endId))
                  ELSE BindingEdges(Tail(items), ids, g)

\* line 168
HasEdges(g) == \E k \in DOMAIN g.adj : g.adj[k] # <<>>

\* the comparator without its second key
CompareX(a, b) == NumOr0(a, "x") - NumOr0(b, "x")

\* line 171: the comparator (a.x || 0) - (b.x || 0) || (a.y || 0) - (b.y || 0)
CompareXY(a, b) ==
    IF NumOr0(a, "x") - NumOr0(b, "x") # 0 THEN NumOr0(a, "x") - NumOr0(b, "x")
    ELSE NumOr0(a, "y") - NumOr0(b, "y")

\* Array.prototype.sort with a consistent comparator, given as the table
\* cmp[j, i] of the comparator's values on entries j and i: entry i lands after
\* the entries that compare smaller and after the equal ones that precede it
\* (the sort is stable)
StableSort(s, cmp) ==
    LET rank(i) == 1 + Cardinality({ j \in 1..Len(s) :
                        \/ cmp[j, i] < 0
                        \/ (cmp[j, i] = 0 /\ j < i) })
        at(p) == CHOOSE i \in 1..Len(s) : rank(i) = p
    IN  [p \in 1..Len(s) |-> s[at(p)]]

\* nodes sorted left to right, then top to bottom
SortByPosition(s) ==
    StableSort(s, [j \in 1..Len(s), i \in 1..Len(s) |-> CompareXY(s[j], s[i])])

\* allElements.sort(...): the collection itself reordered
PositionSortInPlace(items, ns) ==
    [input |-> SortByPosition(items), sorted |-> SortByPosition(ns)]

\* line 171: nodes.slice().sort(...): sort reorders the copy that slice made, so
\* the collection handed in keeps its order
PositionSort(items, ns) == [input |-> items, sorted |-> SortByPosition(ns)]

\* lines 172-179
RECURSIVE ChainEdges(_, _)
ChainEdges(sorted, g) ==
    IF Len(sorted) < 2 THEN g
    ELSE ChainEdges(Tail(sorted),
                    AddEdge(g, PropertyKey(Field(sorted[1], "id")),
                               PropertyKey(Field(sorted[2], "id"))))

\* lines 139-180: the adjacency and in-degrees the walk starts from, and the
\* collection as the construction leaves it
BuildGraph(items) ==
    LET ns == GraphNodes(items)
        g == BindingEdges(items, NodeIdSet(ns), EmptyGraph(ns))
        ps == PositionSort(items, ns)
        c == ChainEdges(ps.sorted, g)
    IN  IF HasEdges(g) THEN [adj |-> g.adj, indeg |-> g.indeg, input |-> items]
        ELSE [adj |-> c.adj, indeg |-> c.indeg, input |-> ps.input]

\* the keys in the order of their insertion, whatever they look like
InsertionOrderKeys(keys) == keys

\* Object.keys: integer-like keys ascending, then the others in insertion order
ObjectKeys(keys) ==
    LET ints == SelectSeq(keys, IsArrayIndex)
    IN  StableSort(ints, [j \in 1..Len(ints), i \in 1..Len(ints) |->
                              CompareIndex(ints[j], ints[i])])
        \o SelectSeq(keys, LAMBDA k : ~IsArrayIndex(k))

\* a queue seeded with every key, the in-degree test left out
SeedEveryKey(keys, deg) == ObjectKeys(keys)

\* lines 183-186
SeedQueue(keys, deg) == SelectSeq(ObjectKeys(keys), LAMBDA k : deg[k] = 0)

\* successors enqueued whatever their in-degree has become
RECURSIVE VisitSuccessorsAlways(_, _, _)
VisitSuccessorsAlways(succs, deg, q) ==
    IF succs = <<>> THEN [indeg |-> deg, queue |-> q]
    ELSE LET nb == Head(succs)
         IN  VisitSuccessorsAlways(Tail(succs), [deg EXCEPT ![nb] = @ - 1], Append(q, nb))

\* successors put at the front of the queue (unshift for push)
RECURSIVE VisitSuccessorsFront(_, _, _)
VisitSuccessorsFront(succs, deg, q) ==
    IF succs = <<>> THEN [indeg |-> deg, queue |-> q]
    ELSE LET nb == Head(succs)
             d == [deg EXCEPT ![nb] = @ - 1]
         IN  VisitSuccessorsFront(Tail(succs), d, IF d[nb] = 0 THEN <<nb>> \o q ELSE q)

\* lines 192-195: for (const nb of adj[id]) { indeg[nb]--; if (indeg[nb] === 0) queue.push(nb) }
RECURSIVE VisitSuccessors(_, _, _)
VisitSuccessors(succs, deg, q) ==
    IF succs = <<>> THEN [indeg |-> deg, queue |-> q]
    ELSE LET nb == Head(succs)
             d == [deg EXCEPT ![nb] = @ - 1]
         IN  VisitSuccessors(Tail(succs), d, IF d[nb] = 0 THEN Append(q, nb) ELSE q)

\* the order left as the walk produced it
AppendNothing(ids, ord) == ord

\* the unreached ids appended in the order of Object.keys
AppendMissingByKeys(ids, ord) ==
    ord \o SelectSeq(ObjectKeys(ids), LAMBDA k : k \notin Range(ord))

\* lines 199-202: append the ids that order does not include yet
RECURSIVE AppendMissing(_, _)
AppendMissing(ids, ord) ==
    IF ids = <<>> THEN ord
    ELSE AppendMissing(Tail(ids),
                       IF Head(ids) \in Range(ord) THEN ord ELSE Append(ord, Head(ids)))

NodeIdList(ns) == [i \in 1..Len(ns) |-> Field(ns[i], "id")]

----------------------------------------------------------------------------
(* getElementContext, lines 85-132 *)

IsSpace(c) == c \in { " ", "\t", "\n", "\r" }

\* String.prototype.trim
RECURSIVE TrimStart(_)
TrimStart(t) == IF t # <<>> /\ IsSpace(Head(t)) THEN TrimStart(Tail(t)) ELSE t

RECURSIVE TrimEnd(_)
TrimEnd(t) == IF t # <<>> /\ IsSpace(t[Len(t)]) THEN TrimEnd(SubSeq(t, 1, Len(t) - 1)) ELSE t

Trim(t) == TrimEnd(TrimStart(t))

\* (e.text && e.text.trim()): the trimmed text, or the falsy value met on the way
TrimmedText(e) == IF Truthy(Field(e, "text")) THEN Trim(e.text) ELSE Field(e, "text")

\* e.name ?? ''
NameOrEmpty(e) == IF "name" \in DOMAIN e THEN e.name ELSE <<>>

\* e.type || 'element'
TypeOrElement(e) == IF Truthy(Field(e, "type")) THEN e.type ELSE S_element

\* line 113: (other.text && other.text.trim()) || (other.name ?? '') || ''
NeighborText(other) ==
    IF Truthy(TrimmedText(other)) THEN TrimmedText(other)
    ELSE IF Truthy(NameOrEmpty(other)) THEN NameOrEmpty(other)
    ELSE <<>>

\* lines 89-92: the focal center, kept doubled so that width / 2 stays an integer
ElCenter2(el) ==
    [x |-> 2 * NumOr0(el, "x") + NumOr0(el, "width"),
     y |-> 2 * NumOr0(el, "y") + NumOr0(el, "height")]

\* the top-left corner taken for the center
OtherCorner2(other) == [x |-> 2 * NumOr0(other, "x"), y |-> 2 * NumOr0(other, "y")]

\* lines 100-103
OtherCenter2(other) ==
    [x |-> 2 * NumOr0(other, "x") + NumOr0(other, "width"),
     y |-> 2 * NumOr0(other, "y") + NumOr0(other, "height")]

\* lines 105-107: 4 * (dx * dx + dy * dy), the square of the doubled distance
DistSq4(el, other) ==
    LET dx2 == OtherCenter2(other).x - ElCenter2(el).x
        dy2 == OtherCenter2(other).y - ElCenter2(el).y
    IN  dx2 * dx2 + dy2 * dy2

ProximityRadius == 400

\* dist <= 400
WithinOrAtRadius(q4) == q4 <= 4 * ProximityRadius * ProximityRadius

\* line 110: dist < 400, on the square of the doubled distance
WithinRadius(q4) == q4 < 4 * ProximityRadius * ProximityRadius

RECURSIVE ISqrtBetween(_, _, _)
ISqrtBetween(q, lo, hi) ==
    IF lo = hi THEN lo
    ELSE LET mid == (lo + hi + 1) \div 2
         IN  IF mid * mid <= q THEN ISqrtBetween(q, mid, hi) ELSE ISqrtBetween(q, lo, mid - 1)

\* floor(sqrt(q))
ISqrt(q) == ISqrtBetween(q, 0, 46340)

\* Math.floor(dist)
TruncatedDistance(q4) == ISqrt(q4) \div 2

\* line 115: Math.round(dist) = floor(sqrt(q4) / 2 + 1/2), halves rounding up
RoundedDistance(q4) == (ISqrt(q4) + 1) \div 2

\* lines 111-116
NeighborEntry(el, other) ==
    [id |-> Field(other, "id"),
     text |-> NeighborText(other),
     type |-> TypeOrElement(other),
     distance |-> RoundedDistance(DistSq4(el, other))]

\* line 97: !other || other.id === element.id
Skipped(el, other) == IF other = JsNull THEN TRUE ELSE Field(other, "id") = Field(el, "id")

\* lines 96-118
RECURSIVE CollectNeighbors(_, _, _)
CollectNeighbors(el, items, acc) ==
    IF items = <<>> THEN acc
    ELSE LET other == Head(items)
         IN  IF Skipped(el, other) THEN CollectNeighbors(el, Tail(items), acc)
             ELSE IF WithinRadius(DistSq4(el, other))
                  THEN CollectNeighbors(el, Tail(items), Append(acc, NeighborEntry(el, other)))
                  ELSE CollectNeighbors(el, Tail(items), acc)

\* an array that outlives the call
KeptNeighbors(left) == left

\* line 94: const neighbors = [], whatever an earlier call left behind
NewNeighbors(left) == <<>>

\* line 120: (a.distance ?? 0) - (b.distance ?? 0)
CompareDistance(a, b) == NumOr0(a, "distance") - NumOr0(b, "distance")

\* the neighbors left in input order
UnsortedNeighbors(ns) == ns

\* line 120: neighbors.sort(...)
SortedNeighbors(ns) ==
    StableSort(ns, [j \in 1..Len(ns), i \in 1..Len(ns) |-> CompareDistance(ns[j], ns[i])])

Quoted(t) == <<"\"">> \o t \o <<"\"">>

\* lines 52, 66, 125: n.text ? `"${n.text}"` : n.type
NeighborLabel(n) == IF Truthy(n.text) THEN Quoted(n.text) ELSE n.type

RECURSIVE Join(_, _)
Join(parts, sep) ==
    IF parts = <<>> THEN <<>>
    ELSE IF Len(parts) = 1 THEN parts[1]
    ELSE parts[1] \o sep \o Join(Tail(parts), sep)

Slice(s, n) == SubSeq(s, 1, IF Len(s) < n THEN Len(s) ELSE n)

SummaryNeighbors == 4

\* line 125
NeighborList(ns) ==
    Join([i \in 1..Len(Slice(ns, SummaryNeighbors)) |-> NeighborLabel(ns[i])], <<",", " ">>)

\* line 123: (element.text && element.text.trim()) || (element.name ?? '') || typeLabel
MainText(el) ==
    IF Truthy(TrimmedText(el)) THEN TrimmedText(el)
    ELSE IF Truthy(NameOrEmpty(el)) THEN NameOrEmpty(el)
    ELSE TypeOrElement(el)

S_connectedNear ==
    <<" ", "(em dash)", " ", "c","o","n","n","e","c","t","e","d","/","n","e","a","r",":"," ">>

\* the clause appended even when no neighbor is listed
SummaryWithClause(el, ns) ==
    MainText(el) \o <<" ", "(">> \o TypeOrElement(el) \o <<")">>
    \o S_connectedNear \o NeighborList(ns)

\* lines 127-129
Summary(el, ns) ==
    LET head == MainText(el) \o <<" ", "(">> \o TypeOrElement(el) \o <<")">>
    IN  IF NeighborList(ns) # <<>> THEN head \o S_connectedNear \o NeighborList(ns) ELSE head

\* lines 94-131, for a present element and collection
ElementContext(el, items, left) ==
    LET ns == SortedNeighbors(CollectNeighbors(el, items, NewNeighbors(left)))
    IN  [summary |-> Summary(el, ns), neighbors |-> ns]

----------------------------------------------------------------------------
(* getElementDetails, lines 12-43 *)

S_text == <<"t","e","x","t">>
S_TextLabel == <<"T","e","x","t"," ","l","a","b","e","l">>

\* lines 18-27: the own properties of typeDescriptions
typeDescriptions ==
    (<<"r","e","c","t","a","n","g","l","e">> :> <<"B","o","x">>) @@
    (<<"d","i","a","m","o","n","d">> :> <<"D","e","c","i","s","i","o","n"," ","d","i","a","m","o","n","d">>) @@
    (<<"e","l","l","i","p","s","e">> :> <<"O","v","a","l">>) @@
    (<<"a","r","r","o","w">> :> <<"C","o","n","n","e","c","t","i","o","n"," ","a","r","r","o","w">>) @@
    (<<"l","i","n","e">> :> <<"C","o","n","n","e","c","t","i","n","g"," ","l","i","n","e">>) @@
    (<<"t","e","x","t">> :> <<"T","e","x","t"," ","l","a","b","e","l">>) @@
    (<<"i","m","a","g","e">> :> <<"I","m","a","g","e">>) @@
    (<<"f","r","e","e","d","r","a","w">> :> <<"D","r","a","w","n"," ","s","h","a","p","e">>)

KnownTypes == DOMAIN typeDescriptions

\* properties that every object literal inherits from Object.prototype
S_constructor == <<"c","o","n","s","t","r","u","c","t","o","r">>
S_toString == <<"t","o","S","t","r","i","n","g">>
InheritedKeys == { S_constructor, S_toString }

\* the value of Object.prototype[k], a function: truthy, and no string
InheritedValue(k) == <<"(Object.prototype)">> \o k

\* line 30: typeDescriptions[elementType], a property lookup that follows the
\* prototype chain
TypeDescription(t) ==
    IF t \in KnownTypes THEN typeDescriptions[t]
    ELSE IF t \in InheritedKeys THEN InheritedValue(t)
    ELSE JsUndefined

LowerCase == <<"a","b","c","d","e","f","g","h","i","j","k","l","m","n","o","p","q","r","s","t","u","v","w","x","y","z">>
UpperCase == <<"A","B","C","D","E","F","G","H","I","J","K","L","M","N","O","P","Q","R","S","T","U","V","W","X","Y","Z">>

\* String.prototype.toUpperCase on one character
ToUpperCase(c) ==
    IF \E i \in 1..Len(LowerCase) : LowerCase[i] = c
    THEN UpperCase[CHOOSE i \in 1..Len(LowerCase) : LowerCase[i] = c]
    ELSE c

\* line 30: elementType.charAt(0).toUpperCase() + elementType.slice(1)
Capitalized(t) == IF t = <<>> THEN <<>> ELSE <<ToUpperCase(Head(t))>> \o Tail(t)

\* line 30
TypeLabel(el) ==
    IF Truthy(TypeDescription(TypeOrElement(el))) THEN TypeDescription(TypeOrElement(el))
    ELSE Capitalized(TypeOrElement(el))

\* the parenthesis appended whatever the label
DetailsOfTextAlways(el) == Quoted(TrimmedText(el)) \o <<" ", "(">> \o TypeLabel(el) \o <<")">>

\* lines 33-37: the branch of a non-blank text
DetailsOfText(el) ==
    IF TypeLabel(el) # S_TextLabel
    THEN Quoted(TrimmedText(el)) \o <<" ", "(">> \o TypeLabel(el) \o <<")">>
    ELSE Quoted(TrimmedText(el))

\* lines 13-42
getElementDetails(el) ==
    IF el = JsNull THEN JsNullVal
    ELSE IF Truthy(TrimmedText(el)) THEN DetailsOfText(el)
    ELSE TypeLabel(el)

----------------------------------------------------------------------------
(* buildExplanationPrompt, lines 45-57, and buildDeepDivePrompt, lines 59-76 *)
(* Runs of template text that no claim looks into are kept as one entry.    *)

S_thisElement == <<"t","h","i","s"," ","e","l","e","m","e","n","t">>

\* element?.name ?? 'this element'
NameOrPlaceholder(el) ==
    IF "name" \in DOMAIN el /\ el.name # JsUndefined /\ el.name # JsNullVal
    THEN el.name ELSE S_thisElement

\* lines 50, 64: (element?.text && element.text.trim()) || (element?.name ?? 'this element')
ElementText(el) ==
    IF Truthy(TrimmedText(el)) THEN TrimmedText(el) ELSE NameOrPlaceholder(el)

ExplanationNeighbors == 4
DeepDiveNeighbors == 6

S_NearbyElements == <<"N","e","a","r","b","y"," ","e","l","e","m","e","n","t","s",":"," ">>
S_NearbyElementsInclude == <<"N","e","a","r","b","y"," ","e","l","e","m","e","n","t","s"," ","i","n","c","l","u","d","e",":"," ">>

\* every given neighbor listed
AllDescriptors(ns, n) == Join([i \in 1..Len(ns) |-> NeighborLabel(ns[i])], <<",", " ">>)

\* .slice(0, n).map(n => (n.text ? `"${n.text}"` : n.type)).join(', ')
Descriptors(ns, n) ==
    Join([i \in 1..Len(Slice(ns, n)) |-> NeighborLabel(ns[i])], <<",", " ">>)

\* lines 51-53, 65-67: the clause, or '' for no neighbors
NeighborStr(given, intro, n) ==
    IF given # JsNull /\ Len(given.items) > 0
    THEN intro \o Descriptors(given.items, n) \o <<".">>
    ELSE <<>>

S_DiagramTopic == <<"D","i","a","g","r","a","m"," ","t","o","p","i","c",":"," ","\"">>
S_Explain == <<"E","x","p","l","a","i","n"," ","\"">>
S_ProvideDetailed == <<"P","r","o","v","i","d","e"," ","a"," ","d","e","t","a","i","l","e","d"," ","e","x","p","l","a","n","a","t","i","o","n"," ","o","f"," ","\"">>

\* lines 55-56
buildExplanationPrompt(el, topic, given) ==
    S_DiagramTopic \o topic \o <<"\"", ".", " ">>
    \o NeighborStr(given, S_NearbyElements, ExplanationNeighbors)
    \o <<"\n">> \o S_Explain \o ElementText(el) \o <<"\"">>
    \o <<" in 2-3 sentences. DO NOT start with (...) why it matters.">>

\* lines 69-75
buildDeepDivePrompt(el, topic, given) ==
    S_DiagramTopic \o topic \o <<"\"", ".", " ">>
    \o NeighborStr(given, S_NearbyElementsInclude, DeepDiveNeighbors)
    \o <<"\n">> \o S_ProvideDetailed \o ElementText(el) \o <<"\"">>
    \o <<". DO NOT start with (...) not generic definitions.">>

----------------------------------------------------------------------------
(* Inputs of getElementDetails and of the prompt builders *)

MaxGiven == 7   \* neighbors handed to a prompt builder

\* an object without own properties: {}
EmptyObject == [f \in {} |-> f]

S_widget == <<"w","i","d","g","e","t">>
S_Start == <<"S","t","a","r","t">>

\* a field that is missing or has one of the values
Optional(f, values) == { EmptyObject } \cup { [k \in { f } |-> v] : v \in values }

\* nodes of known, unknown and missing type, with and without text and name
PromptNodes ==
    { t @@ x @@ n : t \in Optional("type", { S_rectangle, S_text, S_widget, S_constructor }),
                    x \in Optional("text", { <<>>, <<" ">>, S_Start, <<" ","S","t"," ">> }),
                    n \in Optional("name", { <<>>, <<"N">> }) }

FewPromptNodes == { [type |-> S_rectangle, text |-> S_Start], [type |-> S_text] }

Topics == { <<>>, <<"T">> }

\* neighbor entries as getElementContext produces them, with and without text
GivenKinds ==
    { [id |-> <<"a">>, text |-> <<"A">>, type |-> S_rectangle, distance |-> 1],
      [id |-> <<"b">>, text |-> <<>>, type |-> S_text, distance |-> 2] }

PromptInput(el, topic, given) ==
    \/ /\ el \in PromptNodes \cup { JsNull }
       /\ topic \in Topics
       /\ given \in { JsNull } \cup { Array(ns) : ns \in SeqsUpTo(GivenKinds, 1) }
    \/ /\ el \in FewPromptNodes
       /\ topic = <<"T">>
       /\ given \in { Array(ns) : ns \in SeqsUpTo(GivenKinds, MaxGiven) }

----------------------------------------------------------------------------
(* ChatPanel (src/unnamed/part_001): the state a mounted panel starts in *)

\* lines 28-34: the greeting the transcript starts with; its id is '1'
Greeting ==
    [id |-> 1, role |-> "assistant",
     content |-> <<"Hi! I'm here to help you understand complex topics visually. (...)">>]

\* Date.now() is a count of milliseconds far above the greeting's id
StartTime == 2

\* lines 28-37: the initial values of the state hooks, nothing awaited
PanelMounted ==
    /\ messages = <<Greeting>>
    /\ input = <<>>
    /\ isLoading = FALSE
    /\ mode = "generate"
    /\ now = StartTime
    /\ calls = <<>>
    /\ submits = [count |-> 0, last |-> "none"]

PanelUnused ==
    /\ PanelMounted
    /\ currentMermaid = <<>>

\* no request has arrived at the handlers
HandlerUnused ==
    /\ request = JsNull
    /\ serving = [at |-> "none", status |-> 0]
    /\ response = JsNull

----------------------------------------------------------------------------
(* The calls *)

NoLocals ==
    /\ nodes = <<>>
    /\ adj = <<>>
    /\ indeg = <<>>
    /\ indegKeys = <<>>
    /\ queue = <<>>
    /\ order = <<>>
    /\ dequeued = 0
    /\ element = JsNull
    /\ neighbors = <<>>
    /\ earlier = <<>>
    /\ diagramTopic = <<>>
    /\ promptNeighbors = JsNull
    /\ PanelUnused
    /\ HandlerUnused

InitTraversal ==
    /\ TraversalInput(allElements)
    /\ pc = "idle"
    /\ NoLocals
    /\ result = Returned(<<>>)

InitContext ==
    /\ NearInput(allElements)
    /\ pc = "idle"
    /\ NoLocals
    /\ result = Returned(<<>>)

\* the walk makes one step per graph node at most; one more shows a walk that
\* would not stop
WalkCap == MaxNodes + 1

\* line 136: an absent or empty collection returns []
TraversalOfNothing ==
    /\ pc = "idle"
    /\ NothingToTraverse(allElements)
    /\ pc' = "done"
    /\ result' = Returned(<<>>)
    /\ UNCHANGED <<allElements, travLocals, ctxLocals, promptLocals, panelVars, handlerVars>>

\* line 139 on a collection with a null entry: TypeError
TraversalThrows ==
    /\ pc = "idle"
    /\ ~NothingToTraverse(allElements)
    /\ FilterThrows(allElements.items)
    /\ pc' = "done"
    /\ result' = Thrown("TypeError")
    /\ UNCHANGED <<allElements, travLocals, ctxLocals, promptLocals, panelVars, handlerVars>>

\* lines 139-188: build the graph and seed the queue
TraversalStart ==
    /\ pc = "idle"
    /\ ~NothingToTraverse(allElements)
    /\ ~FilterThrows(allElements.items)
    /\ LET ns == GraphNodes(allElements.items)
           g == BuildGraph(allElements.items)
       IN  /\ nodes' = ns
           /\ adj' = g.adj
           /\ indeg' = g.indeg
           /\ indegKeys' = KeysInOrder(ns)
           /\ queue' = SeedQueue(KeysInOrder(ns), g.indeg)
           /\ allElements' = Array(g.input)
    /\ order' = <<>>
    /\ dequeued' = 0
    /\ pc' = "walk"
    /\ UNCHANGED <<result, ctxLocals, promptLocals, panelVars, handlerVars>>

\* lines 189-196: one iteration of while (queue.length > 0)
WalkStep ==
    /\ pc = "walk"
    /\ queue # <<>>
    /\ dequeued < WalkCap
    /\ LET id == Head(queue)
           v == VisitSuccessors(adj[id], indeg, Tail(queue))
       IN  /\ order' = Append(order, id)
           /\ indeg' = v.indeg
           /\ queue' = v.queue
    /\ dequeued' = dequeued + 1
    /\ UNCHANGED <<allElements, pc, nodes, adj, indegKeys, result, ctxLocals, promptLocals, panelVars, handlerVars>>

\* lines 199-204: the loop has ended; append the unreached ids and return
TraversalReturn ==
    /\ pc = "walk"
    /\ queue = <<>>
    /\ order' = AppendMissing(NodeIdList(nodes), order)
    /\ result' = Returned(order')
    /\ pc' = "done"
    /\ UNCHANGED <<allElements, nodes, adj, indeg, indegKeys, queue, dequeued, ctxLocals, promptLocals, panelVars, handlerVars>>

\* the elements a caller selects: an entry of the collection, an empty object,
\* or nothing
FocalChoices(all) ==
    IF all = JsNull THEN { JsNull, EmptyObject, [id |-> <<"a">>, type |-> S_rectangle] }
    ELSE Range(all.items) \cup { JsNull, EmptyObject }

AfterCall(at) == IF at = "idle" THEN "ctx1" ELSE "ctx2"

Remembered == IF pc = "idle" THEN <<>> ELSE <<[element |-> element, result |-> result]>>

\* line 86: no element, no context
ContextOfNothing ==
    /\ pc \in { "idle", "ctx1" }
    /\ element' = JsNull
    /\ result' = Returned([summary |-> <<>>, neighbors |-> <<>>])
    /\ earlier' = Remembered
    /\ pc' = AfterCall(pc)
    /\ UNCHANGED <<allElements, travLocals, neighbors, promptLocals, panelVars, handlerVars>>

\* line 96 on an absent collection: for ... of null is a TypeError
ContextThrows ==
    /\ pc \in { "idle", "ctx1" }
    /\ allElements = JsNull
    /\ \E el \in FocalChoices(allElements) \ { JsNull } :
          /\ element' = el
          /\ neighbors' = NewNeighbors(neighbors)
          /\ result' = Thrown("TypeError")
    /\ earlier' = Remembered
    /\ pc' = AfterCall(pc)
    /\ UNCHANGED <<allElements, travLocals, promptLocals, panelVars, handlerVars>>

\* lines 88-131
ContextCall ==
    /\ pc \in { "idle", "ctx1" }
    /\ allElements # JsNull
    /\ \E el \in FocalChoices(allElements) \ { JsNull } :
          LET out == ElementContext(el, allElements.items, neighbors)
          IN  /\ element' = el
              /\ neighbors' = out.neighbors
              /\ result' = Returned(out)
    /\ earlier' = Remembered
    /\ pc' = AfterCall(pc)
    /\ UNCHANGED <<allElements, travLocals, promptLocals, panelVars, handlerVars>>

InitPrompt ==
    /\ PromptInput(element, diagramTopic, promptNeighbors)
    /\ allElements = JsNull
    /\ pc = "idle"
    /\ nodes = <<>>
    /\ adj = <<>>
    /\ indeg = <<>>
    /\ indegKeys = <<>>
    /\ queue = <<>>
    /\ order = <<>>
    /\ dequeued = 0
    /\ neighbors = <<>>
    /\ earlier = <<>>
    /\ result = Returned(<<>>)
    /\ PanelUnused
    /\ HandlerUnused

\* lines 12-43
DetailsCall ==
    /\ pc = "idle"
    /\ result' = Returned(getElementDetails(element))
    /\ pc' = "details"
    /\ UNCHANGED <<allElements, travLocals, ctxLocals, promptLocals, panelVars, handlerVars>>

\* lines 45-57
ExplanationCall ==
    /\ pc = "idle"
    /\ result' = Returned(buildExplanationPrompt(element, diagramTopic, promptNeighbors))
    /\ pc' = "explanation"
    /\ UNCHANGED <<allElements, travLocals, ctxLocals, promptLocals, panelVars, handlerVars>>

\* lines 59-76
DeepDiveCall ==
    /\ pc = "idle"
    /\ result' = Returned(buildDeepDivePrompt(element, diagramTopic, promptNeighbors))
    /\ pc' = "deepDive"
    /\ UNCHANGED <<allElements, travLocals, ctxLocals, promptLocals, panelVars, handlerVars>>

NextPrompt ==
    \/ DetailsCall
    \/ ExplanationCall
    \/ DeepDiveCall

NextTraversal ==
    \/ TraversalOfNothing
    \/ TraversalThrows
    \/ TraversalStart
    \/ WalkStep
    \/ TraversalReturn

NextContext ==
    \/ ContextOfNothing
    \/ ContextThrows
    \/ ContextCall
    \/ NextTraversal

\* getTraversalOrder on graphs and layouts
SpecTraversal == InitTraversal /\ [][NextTraversal]_vars

\* a call runs to its end: nothing else is scheduled while it runs
LiveTraversal == SpecTraversal /\ WF_vars(WalkStep) /\ WF_vars(TraversalReturn)

\* getElementContext, up to twice, and getTraversalOrder on placed elements
SpecContext == InitContext /\ [][NextContext]_vars

\* getElementDetails and the prompt builders, one call each
SpecPrompt == InitPrompt /\ [][NextPrompt]_vars

----------------------------------------------------------------------------
(* ChatPanel (src/unnamed/part_001): handleSubmit and streamChat.          *)
(* A handleSubmit call runs from the submit event to its first await in    *)
(* one step; what it awaits settles in a later step, and the rest of the   *)
(* call runs then.  A message is the record of its fields; its id, the     *)
(* decimal text of a Date.now() reading, is that reading.                  *)

\* how many submit events and how many stream chunks per request are explored
MaxSubmits == 2
MaxChunks == 2

Inputs == { <<>>, <<" ">>, <<" ", "a">> }

Modes == { "chat", "generate", "update" }

Diagrams == { <<>>, <<"graph TD">> }

\* the text of one parsed delta; an empty one is skipped at line 179
Deltas == { <<>>, <<"x">> }

\* line 114: the message of what was thrown, or 'Something went wrong'
Rejections == { <<"Something went wrong">> }

\* lines 146-152: what streamChat itself throws
ChatErrors == { <<"Chat failed">>, <<"No response body">> }

\* a Date.now() reading that follows the reading t: the same millisecond or
\* a later one
DateNow(t) == { t, t + 1 }

\* lines 64-69
UserMessage(t, content, m) ==
    [id |-> t, role |-> "user", content |-> content, mode |-> m]

AssistantMessage(t, content) ==
    [id |-> t, role |-> "assistant", content |-> content]

\* line 82
GeneratedReply(content) ==
    <<"I've generated a diagram for ">> \o Quoted(content)
        \o <<". You can now: (...)">>

\* line 94
S_NoDiagram ==
    <<"There's no diagram on the canvas yet. Try **generating** one first!">>

\* line 103
UpdatedReply(content) ==
    <<"Done! I've updated the diagram based on your instruction: ">>
        \o Quoted(content)

\* line 121
ErrorReply(errorMessage) ==
    <<"Sorry, I encountered an error: ">> \o errorMessage
        \o <<". Please try again.">>

\* a call at its await: where it waits, its userMessage, and for streamChat
\* its assistantId, the index at which line 131 put the placeholder, the
\* fullContent so far and the number of chunks read
Awaiting(at, userMessage, assistantId, slot) ==
    [at |-> at, userMessage |-> userMessage, assistantId |-> assistantId,
     slot |-> slot, fullContent |-> <<>>, chunks |-> 0]

RemoveAt(s, i) == SubSeq(s, 1, i - 1) \o SubSeq(s, i + 1, Len(s))

\* line 62 with the guard dropped for blank input
AcceptsBlank == ~isLoading

\* line 62: the submit goes on
Accepts == Trim(input) # <<>> /\ ~isLoading

\* line 182: every message whose id is assistantId takes the new content
WithContent(ms, assistantId, fullContent) ==
    [k \in DOMAIN ms |->
        IF ms[k].id = assistantId
        THEN [ms[k] EXCEPT !.content = fullContent]
        ELSE ms[k]]

detectorVars ==
    <<allElements, pc, travLocals, ctxLocals, promptLocals, result>>

InitPanel ==
    /\ allElements = JsNull
    /\ pc = "idle"
    /\ nodes = <<>>
    /\ adj = <<>>
    /\ indeg = <<>>
    /\ indegKeys = <<>>
    /\ queue = <<>>
    /\ order = <<>>
    /\ dequeued = 0
    /\ element = JsNull
    /\ neighbors = <<>>
    /\ earlier = <<>>
    /\ diagramTopic = <<>>
    /\ promptNeighbors = JsNull
    /\ result = Returned(<<>>)
    /\ PanelMounted
    /\ currentMermaid \in Diagrams
    /\ HandlerUnused

\* line 290; the field is disabled while isLoading (line 298)
TypeInput ==
    /\ ~isLoading
    /\ \E v \in Inputs \ {input} : input' = v
    /\ UNCHANGED <<messages, isLoading, mode, currentMermaid, now, calls, submits>>
    /\ UNCHANGED <<detectorVars, handlerVars>>

\* line 264
SetMode ==
    /\ \E m \in Modes \ {mode} : mode' = m
    /\ UNCHANGED <<messages, input, isLoading, currentMermaid, now, calls, submits>>
    /\ UNCHANGED <<detectorVars, handlerVars>>

\* the parent renders the panel with another currentMermaid
DiagramChanges ==
    /\ \E d \in Diagrams \ {currentMermaid} : currentMermaid' = d
    /\ UNCHANGED <<messages, input, isLoading, mode, now, calls, submits>>
    /\ UNCHANGED <<detectorVars, handlerVars>>

\* lines 71-73 and 76: generate mode waits for onGenerateDiagram
SubmitGenerate(userMessage) ==
    /\ messages' = Append(messages, userMessage)
    /\ input' = <<>>
    /\ isLoading' = TRUE
    /\ now' = userMessage.id
    /\ calls' = Append(calls, Awaiting("generate", userMessage, 0, 0))

\* lines 71-73 and 86-107: update mode answers at once when there is no
\* diagram (the finally block runs in the same step), and waits for
\* onUpdateDiagram otherwise
SubmitUpdate(userMessage) ==
    IF currentMermaid = <<>>
    THEN \E t \in DateNow(userMessage.id) :
            /\ messages' = messages
                    \o <<userMessage, AssistantMessage(t, S_NoDiagram)>>
            /\ input' = <<>>
            /\ isLoading' = FALSE
            /\ now' = t
            /\ calls' = calls
    ELSE /\ messages' = Append(messages, userMessage)
         /\ input' = <<>>
         /\ isLoading' = TRUE
         /\ now' = userMessage.id
         /\ calls' = Append(calls, Awaiting("update", userMessage, 0, 0))

\* lines 71-73, 110 and 130-133: chat mode enters streamChat, which reads
\* the clock again, appends the placeholder and waits for fetch
SubmitChat(userMessage) ==
    \E assistantId \in DateNow(userMessage.id) :
        /\ messages' = messages
                \o <<userMessage, AssistantMessage(assistantId, <<>>)>>
        /\ input' = <<>>
        /\ isLoading' = TRUE
        /\ now' = assistantId
        /\ calls' = Append(calls, Awaiting("fetch", userMessage, assistantId,
                                           Len(messages) + 2))

Submitted(outcome) == [count |-> submits.count + 1, last |-> outcome]

\* lines 60-110: a submit event.  The event follows a keystroke or a click,
\* so its clock reading is later than every earlier one.
Submit ==
    /\ submits.count < MaxSubmits
    /\ IF Accepts
       THEN LET userMessage == UserMessage(now + 1, Trim(input), mode)
            IN  /\ submits' = Submitted("accepted")
                /\ CASE mode = "generate" -> SubmitGenerate(userMessage)
                     [] mode = "update" -> SubmitUpdate(userMessage)
                     [] OTHER -> SubmitChat(userMessage)
       ELSE /\ submits' = Submitted(IF isLoading THEN "pending" ELSE "blank")
            /\ UNCHANGED <<messages, input, isLoading, now, calls>>
    /\ UNCHANGED <<mode, currentMermaid>>
    /\ UNCHANGED <<detectorVars, handlerVars>>

\* lines 124-126: the call i ends
Finally(i) ==
    /\ isLoading' = FALSE
    /\ calls' = RemoveAt(calls, i)

\* lines 112-126: the call i caught an error
Caught(i, errorMessage) ==
    /\ \E t \in DateNow(now) :
          /\ messages' = Append(messages, AssistantMessage(t, ErrorReply(errorMessage)))
          /\ now' = t
    /\ Finally(i)
    /\ UNCHANGED <<input, mode, currentMermaid, submits>>
    /\ UNCHANGED <<detectorVars, handlerVars>>

\* lines 77-84 and 98-106: the awaited callback resolved
Replied(i, content) ==
    /\ \E t \in DateNow(now) :
          /\ messages' = Append(messages, AssistantMessage(t, content))
          /\ now' = t
    /\ Finally(i)
    /\ UNCHANGED <<input, mode, currentMermaid, submits>>
    /\ UNCHANGED <<detectorVars, handlerVars>>

GenerateResolves ==
    \E i \in DOMAIN calls :
        /\ calls[i].at = "generate"
        /\ Replied(i, GeneratedReply(calls[i].userMessage.content))

UpdateResolves ==
    \E i \in DOMAIN calls :
        /\ calls[i].at = "update"
        /\ Replied(i, UpdatedReply(calls[i].userMessage.content))

\* lines 76, 97 and 112: the awaited callback rejected
CallbackRejects ==
    \E i \in DOMAIN calls, errorMessage \in Rejections :
        /\ calls[i].at \in { "generate", "update" }
        /\ Caught(i, errorMessage)

\* lines 133-156: fetch answered ok with a body; the reading begins
FetchResponds ==
    \E i \in DOMAIN calls :
        /\ calls[i].at = "fetch"
        /\ calls' = [calls EXCEPT ![i].at = "stream"]
        /\ UNCHANGED <<messages, input, isLoading, mode, currentMermaid, now, submits>>
        /\ UNCHANGED <<detectorVars, handlerVars>>

\* lines 133-152: fetch rejected, or answered not ok, or without a body
FetchFails ==
    \E i \in DOMAIN calls, errorMessage \in Rejections \cup ChatErrors :
        /\ calls[i].at = "fetch"
        /\ Caught(i, errorMessage)

\* lines 158-190: one delta was read and parsed
StreamDelta ==
    \E i \in DOMAIN calls, content \in Deltas :
        /\ calls[i].at = "stream"
        /\ calls[i].chunks < MaxChunks
        /\ LET fullContent == calls[i].fullContent \o content
           IN  /\ calls' = [calls EXCEPT ![i].fullContent = fullContent,
                                         ![i].chunks = @ + 1]
               /\ messages' = IF content # <<>>
                              THEN WithContent(messages, calls[i].assistantId,
                                               fullContent)
                              ELSE messages
        /\ UNCHANGED <<input, isLoading, mode, currentMermaid, now, submits>>
        /\ UNCHANGED <<detectorVars, handlerVars>>

\* lines 158-160 and 124-126: the stream is done, streamChat returns
StreamEnds ==
    \E i \in DOMAIN calls :
        /\ calls[i].at = "stream"
        /\ Finally(i)
        /\ UNCHANGED <<messages, input, mode, currentMermaid, now, submits>>
        /\ UNCHANGED <<detectorVars, handlerVars>>

\* line 159: reader.read() rejected
StreamFails ==
    \E i \in DOMAIN calls, errorMessage \in Rejections :
        /\ calls[i].at = "stream"
        /\ Caught(i, errorMessage)

NextPanel ==
    \/ TypeInput
    \/ SetMode
    \/ DiagramChanges
    \/ Submit
    \/ GenerateResolves
    \/ UpdateResolves
    \/ CallbackRejects
    \/ FetchResponds
    \/ FetchFails
    \/ StreamDelta
    \/ StreamEnds
    \/ StreamFails

SpecPanel == InitPanel /\ [][NextPanel]_vars

----------------------------------------------------------------------------
(* The generate-diagram and update-diagram handlers                        *)
(* (src/supabase/functions/generate-diagram/index.ts, the same code in     *)
(* src/unnamed/part_004, and src/unnamed/part_005).  One request is served *)
(* from its arrival to its answer; each await is a step of its own, and    *)
(* what is awaited may reject.                                             *)

Handlers == { "generate-diagram", "update-diagram" }

\* generate-diagram line 137, update-diagram line 25: the field that is required
RequiredField(handler) ==
    IF handler = "generate-diagram" THEN "topic" ELSE "instruction"

\* what req.json() yields: a rejection for a body that is no JSON, or the value
Bodies ==
    { [kind |-> "invalid"] } \cup
    { [kind |-> "json", value |-> v] :
        v \in { JsNull, EmptyObject,
                [topic |-> <<>>], [topic |-> <<"t">>],
                [instruction |-> <<"i">>],
                [instruction |-> <<"i">>, currentDiagram |-> <<"g">>] } }

\* Deno.env.get('LOVABLE_API_KEY')
ApiKeys == { JsUndefined, <<"k">> }

Requests ==
    [handler : Handlers, method : { "OPTIONS", "POST" }, body : Bodies,
     key : ApiKeys]

\* the statuses the gateway answers with
GatewayStatuses == { 200, 402, 429, 500 }

\* three backticks; "(backtick)" stands for the character
S_fence == <<"(backtick)", "(backtick)", "(backtick)">>

S_mermaidFence == S_fence \o <<"m", "e", "r", "m", "a", "i", "d">>

\* a content that is a number, which has no trim method
S_NotAString == <<"(5)">>

Contents ==
    { <<>>, <<"g">>, <<" ", "g", "\n">>,
      S_mermaidFence \o <<"\n", "g", "\n">> \o S_fence }

Completion(content) ==
    [choices |-> [items |-> <<[message |-> [content |-> content]]>>]]

\* what response.json() yields for an answer of the gateway
GatewayData ==
    { JsNull, EmptyObject, [choices |-> [items |-> <<>>]] }
        \cup { Completion(c) : c \in Contents \cup {S_NotAString} }

corsHeaders ==
    { "Access-Control-Allow-Origin", "Access-Control-Allow-Headers" }

\* { ...corsHeaders, 'Content-Type': 'application/json' }
jsonHeaders == corsHeaders \cup { "Content-Type" }

\* new Response(JSON.stringify(body), { status, headers })
Response(status, body) ==
    [status |-> status, headers |-> jsonHeaders, body |-> body]

\* lines 202-208: the catch block
ServerError(message) == Response(500, [error |-> message])

StartsWith(s, p) == Len(s) >= Len(p) /\ SubSeq(s, 1, Len(p)) = p

\* s.replace(/p\n?/g, '')
RECURSIVE Without(_, _)
Without(s, p) ==
    IF s = <<>> THEN <<>>
    ELSE IF StartsWith(s, p)
         THEN LET rest == SubSeq(s, Len(p) + 1, Len(s))
              IN  Without(IF rest # <<>> /\ Head(rest) = "\n"
                          THEN Tail(rest) ELSE rest, p)
         ELSE <<Head(s)>> \o Without(Tail(s), p)

\* line 185: data.choices?.[0]?.message?.content, JsUndefined where the
\* chain ends early
ChoiceContent(data) ==
    IF "choices" \notin DOMAIN data THEN JsUndefined
    ELSE IF data.choices.items = <<>> THEN JsUndefined
    ELSE LET first == data.choices.items[1]
         IN  IF "message" \notin DOMAIN first THEN JsUndefined
             ELSE Field(first.message, "content")

\* lines 185-191: trim() || '', then the fences removed and trim() again
Mermaid(content) ==
    LET trimmed == IF Truthy(content) THEN Trim(content) ELSE <<>>
    IN  Trim(Without(Without(trimmed, S_mermaidFence), S_fence))

InitHandler ==
    /\ allElements = JsNull
    /\ pc = "idle"
    /\ nodes = <<>>
    /\ adj = <<>>
    /\ indeg = <<>>
    /\ indegKeys = <<>>
    /\ queue = <<>>
    /\ order = <<>>
    /\ dequeued = 0
    /\ element = JsNull
    /\ neighbors = <<>>
    /\ earlier = <<>>
    /\ diagramTopic = <<>>
    /\ promptNeighbors = JsNull
    /\ result = Returned(<<>>)
    /\ PanelUnused
    /\ request \in Requests
    /\ serving = [at |-> "received", status |-> 0]
    /\ response = JsNull

\* the handler returns r
Answers(r) ==
    /\ response' = r
    /\ serving' = [serving EXCEPT !.at = "done"]
    /\ UNCHANGED request
    /\ UNCHANGED <<detectorVars, panelVars>>

\* the handler goes on to its next await
Awaits(at) ==
    /\ serving' = [serving EXCEPT !.at = at]
    /\ UNCHANGED <<request, response>>
    /\ UNCHANGED <<detectorVars, panelVars>>

\* lines 131-136: OPTIONS is answered with the CORS headers, anything else
\* enters the try block and awaits req.json()
Receive ==
    /\ serving.at = "received"
    /\ IF request.method = "OPTIONS"
       THEN Answers([status |-> 200, headers |-> corsHeaders, body |-> JsNull])
       ELSE Awaits("body")

\* lines 136-150: the body is read and destructured, the field and the key
\* are tested, fetch is called
BodyRead ==
    /\ serving.at = "body"
    /\ LET body == request.body
           required == RequiredField(request.handler)
       IN  IF body.kind = "invalid"
           THEN Answers(ServerError(<<"Unexpected token">>))
           ELSE IF body.value = JsNull
           THEN Answers(ServerError(<<"Cannot destructure property of null">>))
           ELSE IF ~Truthy(Field(body.value, required))
           THEN Answers(Response(400, [error |-> <<required, " is required">>]))
           ELSE IF ~Truthy(request.key)
           THEN Answers(ServerError(<<"LOVABLE_API_KEY is not configured">>))
           ELSE Awaits("fetch")

\* line 150: fetch rejected
FetchRejects ==
    /\ serving.at = "fetch"
    /\ Answers(ServerError(<<"fetch failed">>))

\* lines 150-166: the gateway answered; a status that is not ok has its
\* text read, an ok one its JSON
FetchAnswers ==
    /\ serving.at = "fetch"
    /\ \E status \in GatewayStatuses :
          /\ serving' = [at |-> IF status = 200 THEN "json" ELSE "text",
                         status |-> status]
          /\ UNCHANGED <<request, response>>
          /\ UNCHANGED <<detectorVars, panelVars>>

\* lines 166-182: the error text was read
ErrorTextRead ==
    /\ serving.at = "text"
    /\ CASE serving.status = 429 ->
              Answers(Response(429, [error |-> <<"Rate limit exceeded. Please try again later.">>]))
         [] serving.status = 402 ->
              Answers(Response(402, [error |-> <<"AI credits depleted. Please add funds to continue.">>]))
         [] OTHER -> Answers(ServerError(<<"AI gateway error: ", serving.status>>))

\* line 166: response.text() rejected
ErrorTextRejects ==
    /\ serving.at = "text"
    /\ Answers(ServerError(<<"error reading a body from connection">>))

\* lines 184-199: the JSON of the gateway was read
DataRead ==
    /\ serving.at = "json"
    /\ \E data \in GatewayData :
          IF data = JsNull
          THEN Answers(ServerError(<<"Cannot read properties of null">>))
          ELSE IF ChoiceContent(data) = S_NotAString
          THEN Answers(ServerError(<<"trim is not a function">>))
          ELSE Answers([status |-> 200, headers |-> jsonHeaders,
                        body |-> [mermaid |-> Mermaid(ChoiceContent(data))]])

\* line 184: response.json() rejected
DataRejects ==
    /\ serving.at = "json"
    /\ Answers(ServerError(<<"Unexpected end of JSON input">>))

NextHandler ==
    \/ Receive
    \/ BodyRead
    \/ FetchRejects
    \/ FetchAnswers
    \/ ErrorTextRead
    \/ ErrorTextRejects
    \/ DataRead
    \/ DataRejects

SpecHandler == InitHandler /\ [][NextHandler]_vars

----------------------------------------------------------------------------
(* Properties of getTraversalOrder *)

Returns == pc = "done" /\ result.kind = "return"

\* the collection is an array whose graph nodes (the entries that are no
\* connectors) all carry an id, no two the same
IdentifiedNodes ==
    IF allElements = JsNull THEN FALSE
    ELSE LET ns == GraphNodes(allElements.items)
         IN  /\ \A i \in 1..Len(ns) : "id" \in DOMAIN ns[i]
             /\ DistinctIds(ns)

InputNodeIds ==
    LET ns == GraphNodes(allElements.items) IN { ns[i].id : i \in 1..Len(ns) }

NoRepeat(s) == \A i, j \in 1..Len(s) : i # j => s[i] # s[j]

Position(s, v) == CHOOSE i \in 1..Len(s) : s[i] = v

\* u -> v is an edge of the adjacency the walk uses
Edge(u, v) == u \in DOMAIN adj /\ v \in Range(adj[u])

\* the keys reachable from k along one edge or more
RECURSIVE ReachIn(_, _)
ReachIn(front, n) ==
    IF n = 0 THEN front
    ELSE ReachIn(front \cup UNION { Range(adj[u]) : u \in front }, n - 1)

Reachable(k) == ReachIn(Range(adj[k]), Cardinality(DOMAIN adj))

Acyclic == \A k \in DOMAIN adj : k \notin Reachable(k)

\* the edges came from connector bindings, not from the positional chain
FromBindings ==
    IF NothingToTraverse(allElements) THEN FALSE
    ELSE HasEdges(BindingEdges(allElements.items,
                               NodeIdSet(GraphNodes(allElements.items)),
                               EmptyGraph(GraphNodes(allElements.items))))

\* the in-degree of a key in the adjacency the walk started from
InDegree(k) == Cardinality({ u \in DOMAIN adj : k \in Range(adj[u]) })

\* C1: when the graph nodes of the collection carry pairwise distinct ids, the
\* returned sequence holds every graph-node id exactly once and nothing else,
\* whatever the edges are.
C1_EveryNodeOnce ==
    (Returns /\ IdentifiedNodes) =>
        /\ Len(result.value) = Len(GraphNodes(allElements.items))
        /\ NoRepeat(result.value)
        /\ Range(result.value) = InputNodeIds

\* a returned order of three nodes of which the walk dequeued one only, the other
\* two being on a cycle
C1_Witness ==
    /\ Returns /\ IdentifiedNodes
    /\ Len(nodes) = 3 /\ dequeued = 1 /\ FromBindings

\* C2: getTraversalOrder never raises, whatever the collection holds: every call
\* ends by returning a sequence.
C2_NeverRaises == pc = "done" => result.kind = "return"

\* C3: the walk terminates: once started it reaches the return with every graph
\* node id in the result, on 2-cycles and self-loops too.
C3_Terminates ==
    (pc = "walk") ~>
        (Returns /\ \A i \in 1..Len(nodes) : Field(nodes[i], "id") \in Range(result.value))

\* the call returned on two nodes that form a 2-cycle
C3_Witness ==
    /\ Returns /\ Len(nodes) = 2
    /\ \E u, v \in DOMAIN adj : u # v /\ Edge(u, v) /\ Edge(v, u)

\* C4: when the edges derived from the bindings form an acyclic graph, every
\* edge u -> v has u before v in the returned order.
C4_TopologicalOrder ==
    (Returns /\ FromBindings /\ Acyclic) =>
        \A u, v \in DOMAIN adj :
            Edge(u, v) => /\ u \in Range(result.value)
                          /\ v \in Range(result.value)
                          /\ Position(result.value, u) < Position(result.value, v)

\* a returned order for a path over three nodes
C4_Witness ==
    /\ Returns /\ FromBindings /\ Acyclic
    /\ \E u, v, w \in DOMAIN adj : Edge(u, v) /\ Edge(v, w)

\* C5: every graph node of in-degree zero precedes every graph node of positive
\* in-degree in the returned order.
C5_SourcesFirst ==
    Returns =>
        \A u, v \in DOMAIN adj :
            (InDegree(u) = 0 /\ InDegree(v) > 0) =>
                Position(result.value, u) < Position(result.value, v)

\* a path of two nodes and an isolated third one, returned
C5_Witness ==
    /\ Returns /\ FromBindings /\ Len(nodes) = 3
    /\ Cardinality({ k \in DOMAIN adj : InDegree(k) = 0 }) = 2
    /\ \E u, v \in DOMAIN adj : u # v /\ Edge(u, v)

----------------------------------------------------------------------------
(* Properties of getElementContext *)

\* the last call was getElementContext on a present element and returned
ContextReturned ==
    /\ pc \in { "ctx1", "ctx2" }
    /\ result.kind = "return"
    /\ element # JsNull

\* four times the squared distance between the centers (x + width/2, y + height/2)
\* of two elements, missing fields taken as 0
CenterDistSq4(a, b) ==
    LET ax == 2 * NumOr0(a, "x") + NumOr0(a, "width")
        ay == 2 * NumOr0(a, "y") + NumOr0(a, "height")
        bx == 2 * NumOr0(b, "x") + NumOr0(b, "width")
        by == 2 * NumOr0(b, "y") + NumOr0(b, "height")
    IN  (bx - ax) * (bx - ax) + (by - ay) * (by - ay)

\* the entries of the collection other than null
Present(items) == SelectSeq(items, LAMBDA e : e # JsNull)

\* the entries that the claim calls neighbors of el: another id, closer than 400
Near(el, items) ==
    SelectSeq(Present(items),
              LAMBDA o : Field(o, "id") # Field(el, "id")
                         /\ CenterDistSq4(el, o) < 4 * 400 * 400)

Count(s, P(_)) == Cardinality({ i \in 1..Len(s) : P(s[i]) })

\* the id occurs once among the entries of the collection
UniqueId(v, items) == Count(Present(items), LAMBDA e : Field(e, "id") = v) = 1

InputIndex(v, items) == CHOOSE i \in 1..Len(items) : items[i] # JsNull /\ Field(items[i], "id") = v

\* C6: an entry is retained as a neighbor if and only if its id differs from the
\* focal id and its center is strictly closer than 400 to the focal center.
C6_NeighborIffNear ==
    ContextReturned =>
        LET got == result.value.neighbors
            want == Near(element, allElements.items)
        IN  /\ Len(got) = Len(want)
            /\ \A v \in { got[i].id : i \in 1..Len(got) } \cup { Field(want[i], "id") : i \in 1..Len(want) } :
                   Count(got, LAMBDA n : n.id = v) = Count(want, LAMBDA o : Field(o, "id") = v)

\* the focal element has one entry at distance 399.5, retained, and one at
\* exactly 400, left out
C6_Witness ==
    /\ ContextReturned
    /\ Len(result.value.neighbors) = 1
    /\ \E i, j \in 1..Len(allElements.items) :
          /\ allElements.items[i] # JsNull /\ allElements.items[j] # JsNull
          /\ CenterDistSq4(element, allElements.items[i]) = 799 * 799
          /\ CenterDistSq4(element, allElements.items[j]) = 800 * 800
          /\ Field(allElements.items[j], "id") # Field(element, "id")

\* C7: the neighbors are in non-decreasing order of their distance, and two
\* neighbors of equal distance keep the order they have in the collection.
C7_NearestFirstStable ==
    ContextReturned =>
        LET got == result.value.neighbors
        IN  \A i, j \in 1..Len(got) :
                i < j =>
                    /\ got[i].distance <= got[j].distance
                    /\ (/\ got[i].distance = got[j].distance
                        /\ UniqueId(got[i].id, allElements.items)
                        /\ UniqueId(got[j].id, allElements.items))
                       => InputIndex(got[i].id, allElements.items)
                            < InputIndex(got[j].id, allElements.items)

\* two neighbors with the same rounded distance (358), whose centers are not
\* equally far from the focal one
C7_Witness ==
    /\ ContextReturned
    /\ LET got == result.value.neighbors
       IN  /\ Len(got) = 2
           /\ got[1].distance = got[2].distance
           /\ got[1].id # got[2].id
           /\ CenterDistSq4(element, allElements.items[InputIndex(got[1].id, allElements.items)])
                # CenterDistSq4(element, allElements.items[InputIndex(got[2].id, allElements.items)])

\* the distances reported for the entries with id v
ReportedFor(v, ctx) ==
    { ctx.neighbors[i].distance : i \in { k \in 1..Len(ctx.neighbors) : ctx.neighbors[k].id = v } }

\* two calls returned, on the elements a and then b of the same collection
TwoContexts ==
    /\ pc = "ctx2"
    /\ result.kind = "return"
    /\ earlier[1].result.kind = "return"
    /\ element # JsNull
    /\ earlier[1].element # JsNull

\* C8: the distance reported for b around a is the one reported for a around b,
\* b is a neighbor of a exactly when a is one of b, and no distance is negative.
C8_SymmetricDistance ==
    TwoContexts =>
        LET a == earlier[1].element
            b == element
            ofA == earlier[1].result.value
            ofB == result.value
        IN  /\ \A i \in 1..Len(ofA.neighbors) : ofA.neighbors[i].distance >= 0
            /\ \A i \in 1..Len(ofB.neighbors) : ofB.neighbors[i].distance >= 0
            /\ (UniqueId(Field(a, "id"), allElements.items)
                /\ UniqueId(Field(b, "id"), allElements.items))
               => ReportedFor(Field(b, "id"), ofA) = ReportedFor(Field(a, "id"), ofB)

\* a and b are neighbors of each other and only one of them has a width
C8_Witness ==
    /\ TwoContexts
    /\ Field(element, "id") # Field(earlier[1].element, "id")
    /\ UniqueId(Field(element, "id"), allElements.items)
    /\ UniqueId(Field(earlier[1].element, "id"), allElements.items)
    /\ ReportedFor(Field(element, "id"), earlier[1].result.value) # {}
    /\ "width" \in DOMAIN element
    /\ "width" \notin DOMAIN earlier[1].element

\* C9: no call changes the collection: its entries stay in their order and keep
\* their fields, through every step of getTraversalOrder and getElementContext.
C9_InputsUnchanged == [][allElements' = allElements]_vars

\* getTraversalOrder returned after its positional sort moved a node
C9_Witness ==
    /\ Returns
    /\ nodes # <<>>
    /\ ~FromBindings
    /\ SortByPosition(nodes) # nodes

\* C10: a second getElementContext call on the same element and collection returns
\* what the first returned: the same summary and the same neighbors.
C10_SameAnswerTwice ==
    (pc = "ctx2" /\ earlier[1].element = element) => result = earlier[1].result

\* the same element asked about twice, with a neighbor to report
C10_Witness ==
    /\ pc = "ctx2"
    /\ element # JsNull
    /\ earlier[1].element = element
    /\ result.kind = "return"
    /\ Len(result.value.neighbors) = 2

----------------------------------------------------------------------------
(* Properties of getElementDetails *)

Min(a, b) == IF a < b THEN a ELSE b

\* sub occurs in s
Contains(s, sub) ==
    \E i \in 1..(Len(s) - Len(sub) + 1) : SubSeq(s, i, i + Len(sub) - 1) = sub

DetailsReturned == pc = "details" /\ result.kind = "return"

\* the text has a character that is no white space
NonBlank(el) == "text" \in DOMAIN el /\ \E i \in 1..Len(el.text) : ~IsSpace(el.text[i])

\* the text from its first to its last character that is no white space
Stripped(t) ==
    LET inked == { i \in 1..Len(t) : ~IsSpace(t[i]) }
    IN  SubSeq(t, CHOOSE i \in inked : \A j \in inked : i <= j,
                  CHOOSE i \in inked : \A j \in inked : j <= i)

\* C11: for a present node, a non-blank text gives the trimmed text in double
\* quotes followed by " (<type label>)", the parenthesis left out when the label
\* is "Text label"; a missing, empty or blank text gives the type label alone;
\* a rectangle with text "Start" gives "Start" (Box), quotes included.
C11_QuotedTextAndLabel ==
    (DetailsReturned /\ element # JsNull) =>
        /\ (NonBlank(element) /\ TypeLabel(element) # S_TextLabel) =>
               result.value = <<"\"">> \o Stripped(element.text) \o <<"\"", " ", "(">>
                              \o TypeLabel(element) \o <<")">>
        /\ (NonBlank(element) /\ TypeLabel(element) = S_TextLabel) =>
               result.value = <<"\"">> \o Stripped(element.text) \o <<"\"">>
        /\ ~NonBlank(element) => result.value = TypeLabel(element)
        /\ (Field(element, "type") = S_rectangle /\ Field(element, "text") = S_Start) =>
               result.value = <<"\"","S","t","a","r","t","\""," ","(","B","o","x",")">>

\* a text node with spaces around its text was described by the quoted text alone
C11_Witness ==
    /\ DetailsReturned
    /\ element # JsNull
    /\ Field(element, "type") = S_text
    /\ Field(element, "text") = <<" ","S","t"," ">>
    /\ result.value = <<"\"","S","t","\"">>

EightTags ==
    { S_rectangle, <<"d","i","a","m","o","n","d">>, <<"e","l","l","i","p","s","e">>, S_arrow, S_line, S_text, <<"i","m","a","g","e">>, <<"f","r","e","e","d","r","a","w">> }

\* C12: getElementDetails returns null for an absent node only, and for a node
\* whose type tag is none of the eight known tags the label it uses is the tag
\* with its first character in upper case.
C12_UnknownTagCapitalized ==
    DetailsReturned =>
        /\ (result.value = JsNullVal) <=> (element = JsNull)
        /\ (/\ element # JsNull
            /\ Truthy(Field(element, "type"))
            /\ element.type \notin EightTags) =>
               result.value = IF NonBlank(element)
                              THEN <<"\"">> \o Stripped(element.text) \o <<"\"", " ", "(">>
                                   \o Capitalized(element.type) \o <<")">>
                              ELSE Capitalized(element.type)

----------------------------------------------------------------------------
(* Properties of the prompt builders *)

PromptReturned == pc \in { "explanation", "deepDive" } /\ result.kind = "return"

\* the number of neighbors handed in
GivenCount == IF promptNeighbors = JsNull THEN 0 ELSE Len(promptNeighbors.items)

\* how many neighbors the prompt asked for may list
ListedAtMost == IF pc = "explanation" THEN 4 ELSE 6

\* the first k given neighbors, each as its quoted text or else its type,
\* separated by ", " and closed by the full stop of the clause
FirstGiven(k) ==
    Join([i \in 1..k |->
             IF promptNeighbors.items[i].text # <<>>
             THEN <<"\"">> \o promptNeighbors.items[i].text \o <<"\"">>
             ELSE promptNeighbors.items[i].type], <<",", " ">>) \o <<".">>

\* C13: the short prompt lists exactly the first min(4, n) of the n given
\* neighbors, in the given order, and the deep-dive prompt the first min(6, n);
\* with no neighbor each prompt holds the topic and the focal text and no
\* "Nearby elements" clause.
C13_FirstNeighborsListed ==
    PromptReturned =>
        /\ GivenCount > 0 =>
              Contains(result.value,
                       (IF pc = "explanation" THEN S_NearbyElements ELSE S_NearbyElementsInclude)
                       \o FirstGiven(Min(ListedAtMost, GivenCount)))
        /\ GivenCount = 0 =>
              /\ Contains(result.value, S_DiagramTopic \o diagramTopic \o <<"\"">>)
              /\ Contains(result.value, <<"\"">> \o ElementText(element) \o <<"\"">>)
              /\ ~Contains(result.value, <<"N","e","a","r","b","y"," ","e","l","e","m","e","n","t","s">>)

\* a deep-dive prompt built from more neighbors than it lists
C13_Witness ==
    /\ PromptReturned
    /\ pc = "deepDive"
    /\ GivenCount = 7
    /\ Contains(result.value, S_NearbyElementsInclude \o FirstGiven(6))

\* C15: when the focal node is absent or its text is missing, empty or blank,
\* each builder still returns a prompt, and the element is named in it by a
\* placeholder that is not empty.
C15_PlaceholderForNoText ==
    (pc \in { "explanation", "deepDive" } /\ (element = JsNull \/ ~NonBlank(element))) =>
        /\ result.kind = "return"
        /\ ~Contains(result.value, S_Explain \o <<"\"">>)
        /\ ~Contains(result.value, S_ProvideDetailed \o <<"\"">>)

----------------------------------------------------------------------------
(* Properties of the summary and the guard of getElementContext *)

\* the neighbor entry as the summary names it: its quoted text, or else its type
EntryDescriptor(n) == IF n.text # <<>> THEN <<"\"">> \o n.text \o <<"\"">> ELSE n.type

\* the descriptors of the first four of the returned neighbors
FirstFour(ns) ==
    Join([i \in 1..Min(4, Len(ns)) |-> EntryDescriptor(ns[i])], <<",", " ">>)

\* the type tag, "element" for a node without one
TagOf(el) == IF Field(el, "type") \in { JsUndefined, JsNullVal, <<>> } THEN S_element ELSE el.type

\* the summary for a given main text
SummaryAround(main) ==
    main \o <<" ", "(">> \o TagOf(element) \o <<")">>
    \o (IF result.value.neighbors # <<>>
        THEN S_connectedNear \o FirstFour(result.value.neighbors)
        ELSE <<>>)

C14_NothingForNoFocal ==
    (pc \in { "ctx1", "ctx2" } /\ element \in { JsNull, EmptyObject }) =>
        result = Returned([summary |-> <<>>, neighbors |-> <<>>])

----------------------------------------------------------------------------
(* Properties of the edges getTraversalOrder builds *)

\* the connectors of the collection
InputConnectors ==
    { e \in Range(allElements.items) : e # JsNull /\ Field(e, "type") \in { S_arrow, S_line } }

\* the id a binding of a connector names: its elementId, or else its id
NamedBy(c, which) ==
    IF which \notin DOMAIN c THEN JsNullVal
    ELSE IF "elementId" \in DOMAIN c[which] /\ c[which].elementId # <<>> THEN c[which].elementId
    ELSE IF "id" \in DOMAIN c[which] /\ c[which].id # <<>> THEN c[which].id
    ELSE JsNullVal

\* the pairs of graph nodes that some connector binds, start to end
BoundPairs ==
    { <<NamedBy(c, "startBinding"), NamedBy(c, "endBinding")>> : c \in
        { d \in InputConnectors : /\ NamedBy(d, "startBinding") \in InputNodeIds
                                   /\ NamedBy(d, "endBinding") \in InputNodeIds } }

\* node j stands before node i in the order by x, then y, then input position
StandsBefore(ns, j, i) ==
    \/ NumOr0(ns[j], "x") < NumOr0(ns[i], "x")
    \/ NumOr0(ns[j], "x") = NumOr0(ns[i], "x") /\ NumOr0(ns[j], "y") < NumOr0(ns[i], "y")
    \/ /\ NumOr0(ns[j], "x") = NumOr0(ns[i], "x")
       /\ NumOr0(ns[j], "y") = NumOr0(ns[i], "y")
       /\ j < i

\* the place of node i in that order
PlaceByPosition(ns, i) == 1 + Cardinality({ j \in 1..Len(ns) : StandsBefore(ns, j, i) })

InputPosition(v) ==
    CHOOSE i \in 1..Len(GraphNodes(allElements.items)) : GraphNodes(allElements.items)[i].id = v

\* C18: the nodes the walk never dequeues, those whose in-degree never reaches
\* zero, stand after all dequeued nodes in the result, in their input order.
C18_UnreachedLastInInputOrder ==
    (Returns /\ IdentifiedNodes) =>
        /\ dequeued <= Len(result.value)
        /\ \A i \in 1..Len(result.value) : (i <= dequeued) <=> (indeg[result.value[i]] = 0)
        /\ \A i, j \in (dequeued + 1)..Len(result.value) :
              i < j => InputPosition(result.value[i]) < InputPosition(result.value[j])

\* one node dequeued and two on a cycle appended after it
C18_Witness ==
    /\ Returns
    /\ IdentifiedNodes
    /\ dequeued = 1
    /\ Len(result.value) = 3
    /\ indeg[result.value[2]] > 0

\* the graph as the edge construction left it, before the walk
EdgesBuilt == pc = "walk" /\ dequeued = 0

Binding(u, v) ==
    { i \in 1..Len(allElements.items) :
        /\ allElements.items[i] \in InputConnectors
        /\ NamedBy(allElements.items[i], "startBinding") = u
        /\ NamedBy(allElements.items[i], "endBinding") = v }

\* C20: after edge construction the in-degree of every node is the number of
\* its distinct predecessors, so that connectors repeating a pair (u, v) count
\* once, and v is then dequeued after u.
C20_InDegreeCountsPredecessors ==
    /\ EdgesBuilt => \A k \in DOMAIN indeg : indeg[k] = InDegree(k)
    /\ (Returns /\ IdentifiedNodes) =>
          \A u, v \in InputNodeIds :
              (u # v /\ Cardinality(Binding(u, v)) > 1 /\ BoundPairs = { <<u, v>> }) =>
                  /\ Position(result.value, u) < Position(result.value, v)
                  /\ Position(result.value, v) <= dequeued

\* two connectors from the same node to the same node, counted once
C20_Witness ==
    /\ EdgesBuilt
    /\ IdentifiedNodes
    /\ \E u, v \in InputNodeIds :
          u # v /\ Cardinality(Binding(u, v)) = 2 /\ indeg[v] = 1 /\ adj[u] = <<v>>

----------------------------------------------------------------------------
(* Properties across the classification and the neighborhood engine *)

\* C21: the type label in the parentheses of the summary is the label that
\* getElementDetails gives to the focal node's type (Box for rectangle).
C21_FriendlyLabelInSummary ==
    ContextReturned =>
        Contains(result.value.summary, <<" ", "(">> \o TypeLabel(element) \o <<")">>)

----------------------------------------------------------------------------
(* Properties of the Kahn walk *)

\* the ids enqueued so far: those dequeued, then those waiting
Enqueued == SubSeq(order, 1, dequeued) \o queue

\* C22: at every step of the walk no in-degree is negative and no id has been
\* enqueued twice, so the dequeued part of the output repeats no id.
C22_CountersAndQueueSound ==
    pc \in { "walk", "done" } =>
        /\ \A k \in DOMAIN indeg : indeg[k] >= 0
        /\ NoRepeat(Enqueued)
        /\ NoRepeat(SubSeq(order, 1, dequeued))

\* two ids dequeued and one waiting, in a graph built from bindings
C22_Witness ==
    /\ pc = "walk"
    /\ FromBindings
    /\ dequeued = 2
    /\ queue # <<>>
    /\ \E k \in DOMAIN indeg : indeg[k] < InDegree(k)

\* v lies on a cycle of the derived edges or can be reached from one
OnOrBehindCycle(v) ==
    \E u \in DOMAIN adj : u \in Reachable(u) /\ (v = u \/ v \in Reachable(u))

\* C23: a graph node is in the appended tail of the output exactly when it lies
\* on a directed cycle of the derived edges, self-loops included, or is
\* reachable from one; every other node is in the topological part.
C23_TailIsCycleClosure ==
    (Returns /\ IdentifiedNodes) =>
        \A v \in InputNodeIds :
            (Position(result.value, v) > dequeued) <=> OnOrBehindCycle(v)

\* a node behind a self-loop, itself on no cycle, ended in the tail
C23_Witness ==
    /\ Returns
    /\ IdentifiedNodes
    /\ \E v \in InputNodeIds :
          /\ Position(result.value, v) > dequeued
          /\ v \notin Reachable(v)
    /\ \E v \in InputNodeIds : Position(result.value, v) <= dequeued

\* the ids that seed the queue: no edge of the adjacency leads to them
Seeds == { k \in InputNodeIds : InDegree(k) = 0 }

Digits == { "0", "1", "2", "3", "4", "5", "6", "7", "8", "9" }

\* the id is the decimal form of a small non-negative integer
LooksLikeInteger(k) ==
    /\ k # <<>>
    /\ Len(k) <= 9
    /\ \A i \in 1..Len(k) : k[i] \in Digits
    /\ (Len(k) > 1 => k[1] # "0")

RECURSIVE NumberOf(_)
NumberOf(k) ==
    IF k = <<>> THEN 0 ELSE 10 * NumberOf(SubSeq(k, 1, Len(k) - 1)) + DigitVal(k[Len(k)])

\* the order in which an object lists its keys: integers ascending, then the
\* other keys as inserted, here in input order
ListedBefore(u, v) ==
    \/ LooksLikeInteger(u) /\ LooksLikeInteger(v) /\ NumberOf(u) < NumberOf(v)
    \/ LooksLikeInteger(u) /\ ~LooksLikeInteger(v)
    \/ /\ ~LooksLikeInteger(u)
       /\ ~LooksLikeInteger(v)
       /\ InputPosition(u) < InputPosition(v)

\* C24 as claimed: the nodes of in-degree zero that seed the queue are emitted
\* in their input order, for every set of ids, "10" and "2" included.
C24_SeedsInInputOrder ==
    (Returns /\ IdentifiedNodes) =>
        \A u, v \in Seeds :
            InputPosition(u) < InputPosition(v)
                => Position(result.value, u) < Position(result.value, v)

\* C24 as amended: the seeds are emitted with those whose id is the decimal form
\* of an integer first, in ascending numeric order, then the others in input
\* order; so in input order when no id looks like an integer.
C24_SeedsInKeyOrder ==
    (Returns /\ IdentifiedNodes) =>
        \A u, v \in Seeds :
            ListedBefore(u, v) => Position(result.value, u) < Position(result.value, v)

\* seeds "10" and "2" given in this order and emitted in the other
C24_Witness ==
    /\ Returns
    /\ IdentifiedNodes
    /\ FromBindings
    /\ \E u, v \in Seeds :
          /\ LooksLikeInteger(u) /\ LooksLikeInteger(v)
          /\ InputPosition(u) < InputPosition(v)
          /\ Position(result.value, v) < Position(result.value, u)

----------------------------------------------------------------------------
(* Properties of the reported distances *)

\* the last call returned for a present element of a collection whose ids are
\* all different
ContextOfDistinct ==
    /\ ContextReturned
    /\ \A i \in 1..Len(allElements.items) :
          allElements.items[i] # JsNull => UniqueId(Field(allElements.items[i], "id"), allElements.items)

\* four times the squared center distance from the focal element to the node
\* that neighbor entry n stands for
ExactSq4(n) == CenterDistSq4(element, allElements.items[InputIndex(n.id, allElements.items)])

\* d is the integer nearest to the distance whose doubled square is q4, a half
\* counting upwards
NearestInteger(d, q4) ==
    /\ d >= 0
    /\ q4 < (2 * d + 1) * (2 * d + 1)
    /\ (d > 0 => (2 * d - 1) * (2 * d - 1) <= q4)

\* C25 as claimed: the distance field of every returned neighbor, the rounded
\* center distance, is strictly less than the proximity radius 400.
C25_DistanceBelowRadius ==
    ContextOfDistinct =>
        \A i \in 1..Len(result.value.neighbors) : result.value.neighbors[i].distance < 400

\* C25 as amended: the distance field is the center distance, itself strictly
\* less than 400, rounded to the nearest integer, and so at most 400.
C25_DistanceAtMostRadius ==
    ContextOfDistinct =>
        \A i \in 1..Len(result.value.neighbors) :
            LET n == result.value.neighbors[i]
            IN  /\ n.distance <= 400
                /\ ExactSq4(n) < 4 * 400 * 400
                /\ NearestInteger(n.distance, ExactSq4(n))

\* a neighbor 399.5 away, reported at 400
C25_Witness ==
    /\ ContextOfDistinct
    /\ \E i \in 1..Len(result.value.neighbors) :
          /\ result.value.neighbors[i].distance = 400
          /\ ExactSq4(result.value.neighbors[i]) = 799 * 799

\* C26 as claimed: of two returned neighbors, the one whose exact center
\* distance is strictly smaller never stands after the other.
C26_ExactNearestFirst ==
    ContextOfDistinct =>
        \A i, j \in 1..Len(result.value.neighbors) :
            i < j => ExactSq4(result.value.neighbors[i]) <= ExactSq4(result.value.neighbors[j])

\* C26 as amended: the one whose exact distance is strictly smaller stands after
\* the other only when both distances round to the same integer and the other
\* comes first in the input.
C26_NearestFirstUpToRounding ==
    ContextOfDistinct =>
        \A i, j \in 1..Len(result.value.neighbors) :
            LET n == result.value.neighbors[i]
                m == result.value.neighbors[j]
            IN  (i < j /\ ExactSq4(m) < ExactSq4(n)) =>
                    /\ n.distance = m.distance
                    /\ InputIndex(n.id, allElements.items) < InputIndex(m.id, allElements.items)

\* neighbors 1 and 0.5 away, both reported at 1, the farther one first
C26_Witness ==
    /\ ContextOfDistinct
    /\ Len(result.value.neighbors) = 2
    /\ ExactSq4(result.value.neighbors[1]) = 4
    /\ ExactSq4(result.value.neighbors[2]) = 1
    /\ result.value.neighbors[1].distance = 1
    /\ result.value.neighbors[2].distance = 1

----------------------------------------------------------------------------
(* Properties of ChatPanel *)

\* the index k of the transcript holds the placeholder of a request that is
\* still running
PlaceholderAt(k) == \E i \in DOMAIN calls : calls[i].slot = k

\* C27: in chat mode the streamed deltas modify only the placeholder created
\* for that request: in every step, every message that is not the placeholder
\* of a running request (every user message, every earlier assistant
\* message) keeps its content and its role, also when the submit and the
\* placeholder creation fall in the same millisecond.
C27_DeltasTouchOnlyPlaceholder ==
    [][\A k \in DOMAIN messages :
          ~PlaceholderAt(k) =>
              /\ messages'[k].content = messages[k].content
              /\ messages'[k].role = messages[k].role]_vars

Last(s) == s[Len(s)]

\* C28: ChatPanel never has two requests in flight.  In every step: at most
\* one handleSubmit call is waiting afterwards; when none is waiting isLoading
\* is false (whether the last one succeeded or threw); and a submit event
\* that arrives while isLoading is true or while the input is blank appends
\* no message and starts no call.
C28_OneRequestAtATime ==
    [][/\ Len(calls') <= 1
       /\ calls' = <<>> => ~isLoading'
       /\ (submits'.count > submits.count /\ (isLoading \/ Trim(input) = <<>>))
              => (messages' = messages /\ calls' = calls)]_vars

\* a submit was refused while a request was pending, and that request has
\* thrown since: its error reply ends the transcript and isLoading is false
C28_Witness ==
    /\ submits.last = "pending"
    /\ calls = <<>>
    /\ ~isLoading
    /\ \E e \in Rejections \cup ChatErrors : Last(messages).content = ErrorReply(e)

\* C29: every accepted submission appends exactly one user message and, by
\* the time it completes, exactly one assistant message after it, in every
\* mode and on success and failure alike: whenever no call is waiting the
\* transcript is the greeting followed by pairs of a user message and an
\* assistant message.
C29_OneReplyPerSubmission ==
    calls = <<>> =>
        /\ Len(messages) % 2 = 1
        /\ \A k \in 2..Len(messages) :
              messages[k].role = IF k % 2 = 0 THEN "user" ELSE "assistant"

----------------------------------------------------------------------------
(* Properties of the handlers *)

\* the request carries JSON without the field the handler requires
MissingField ==
    /\ request.body.kind = "json"
    /\ ~Truthy(Field(request.body.value, RequiredField(request.handler)))

\* C30: both handlers always answer, and the answer goes by the case:
\* OPTIONS gets the CORS headers; a missing topic/instruction gets 400; a
\* gateway 429 or 402 is passed on with the same status; every other failure
\* gets 500 with an error field; only a successful gateway call gets 200
\* with a mermaid field.
C30_AnswerByCase ==
    serving.at = "done" =>
        /\ response # JsNull
        /\ corsHeaders \subseteq response.headers
        /\ request.method # "OPTIONS" =>
              IF MissingField THEN response.status = 400
              ELSE IF serving.status \in { 402, 429 }
              THEN response.status = serving.status
              ELSE \/ /\ response.status = 500
                      /\ "error" \in DOMAIN response.body
                   \/ /\ response.status = 200
                      /\ "mermaid" \in DOMAIN response.body
                      /\ serving.status = 200

============================================================================
